---- MODULE Spec2Model ----
(***************************************************************************)
(* Model of backend/schemas.py: the pydantic value types of the            *)
(* text-to-knowledge-graph pipeline, their field validators, and the       *)
(* GraphData aggregate.                                                    *)
(*                                                                         *)
(* A Python str is a sequence of one-character strings.  A validator       *)
(* returns a record [ok, val, err]; a raised ValueError is ok = FALSE.     *)
(***************************************************************************)
EXTENDS Integers, Sequences, FiniteSets, TLC

VARIABLES call,       \* the constructor call to make: class and raw arguments
          obj,        \* the outcome of a value-type construction
          built,      \* the outcome of a GraphData construction
          graph,      \* the long-lived GraphData aggregate
          serialized, \* whether the writers of graph follow the single-writer discipline
          pc,         \* per writer: "idle", "append" (validated), "merged" or "failed"
          req,        \* per writer: the GraphExtraction of its merge in progress
          res         \* per writer: the errors of its merge in progress

vars == <<call, obj, built, graph, serialized, pc, req, res>>

(***************************************************************************)
(* Bounds.                                                                 *)
(***************************************************************************)
MaxLen == 2          \* longest raw string argument
MaxTypes == 2        \* most type tags given to one GraphSchema (both lists together)

Chars == {" ", "a", "A"}
Str == UNION {[1..n -> Chars] : n \in 0..MaxLen}

\* Raw type tags offered to GraphSchema: empty, blank, case variants, padded, distinct.
RawTags == { <<>>, <<" ">>, <<"a">>, <<"A">>, <<" ", "a">>, <<"a", " ">>, <<"a", "a">> }

(***************************************************************************)
(* str.strip() and str.upper()                                             *)
(***************************************************************************)
RECURSIVE LStrip(_)
LStrip(s) == IF s # <<>> /\ Head(s) = " " THEN LStrip(Tail(s)) ELSE s

RECURSIVE RStrip(_)
RStrip(s) == IF s # <<>> /\ s[Len(s)] = " " THEN RStrip(SubSeq(s, 1, Len(s) - 1)) ELSE s

Strip(s) == RStrip(LStrip(s))

UpperChar(c) == IF c = "a" THEN "A" ELSE c

Upper(s) == [i \in 1..Len(s) |-> UpperChar(s[i])]

(***************************************************************************)
(* Outcomes of one field's validation.                                     *)
(***************************************************************************)
Ok(v) == [ok |-> TRUE, val |-> v, err |-> "none"]

Raise(msg) == [ok |-> FALSE, val |-> <<>>, err |-> msg]

\* Field(..., min_length=1): the constraint runs before the field_validator, whose
\* outcome is validated.
MinLength1(v, validated) == IF Len(v) < 1 THEN Raise("string_too_short") ELSE validated

\* A field declared `name: str` with no field_validator: stored as given.
PlainStr(v) == Ok(v)

(***************************************************************************)
(* The field validators, one per @field_validator of the source.           *)
(***************************************************************************)
validate_url(v) ==
    IF v = <<>> \/ Strip(v) = <<>> THEN Raise("URL cannot be empty") ELSE Ok(Strip(v))

ArticleContent_validate_non_empty(v) ==
    IF v = <<>> \/ Strip(v) = <<>> THEN Raise("Field cannot be empty") ELSE Ok(Strip(v))

validate_text(v) ==
    IF v = <<>> \/ Strip(v) = <<>> THEN Raise("Text chunk cannot be empty") ELSE Ok(Strip(v))

Entity_validate_non_empty(v) ==
    IF v = <<>> \/ Strip(v) = <<>> THEN Raise("Field cannot be empty") ELSE Ok(Strip(v))

Relationship_validate_non_empty(v) ==
    IF v = <<>> \/ Strip(v) = <<>> THEN Raise("Field cannot be empty") ELSE Ok(Strip(v))

validate_prompt(v) ==
    IF v = <<>> \/ Strip(v) = <<>> THEN Raise("Extraction prompt cannot be empty")
    ELSE Ok(Strip(v))

\* [item.strip() ... for item in v if item and item.strip()]
KeepItem(item) == item # <<>> /\ Strip(item) # <<>>

\* set(cleaned)
Range(q) == {q[i] : i \in 1..Len(q)}

\* Mutant: the duplicate test and the stored tags keep their case.
validate_unique_types_case_sensitive(v) ==
    LET kept == SelectSeq(v, KeepItem)
        cleaned == [i \in 1..Len(kept) |-> Strip(kept[i])]
    IN IF Len(cleaned) # Cardinality(Range(cleaned))
       THEN Raise("Duplicate types found")
       ELSE Ok(cleaned)

validate_unique_types(v) ==
    LET kept == SelectSeq(v, KeepItem)
        cleaned == [i \in 1..Len(kept) |-> Upper(Strip(kept[i]))]
    IN IF Len(cleaned) # Cardinality(Range(cleaned))
       THEN Raise("Duplicate types found")
       ELSE Ok(cleaned)

(***************************************************************************)
(* Model construction: every field is validated in declaration order, the  *)
(* errors are collected, and an object exists only if there are none.      *)
(* Generated identifiers, timestamps and the numeric and optional fields   *)
(* are left out: they take valid values and no validator reads them.       *)
(***************************************************************************)
RECURSIVE Errors(_, _)
Errors(fields, r) ==
    IF fields = <<>> THEN <<>>
    ELSE LET f == Head(fields)
         IN (IF r[f].ok THEN <<>> ELSE << <<f, r[f].err>> >>) \o Errors(Tail(fields), r)

Build(cls, fields, args, r) ==
    LET errs == Errors(fields, r)
    IN [cls |-> cls, args |-> args, ok |-> errs = <<>>, errors |-> errs,
        value |-> IF errs = <<>> THEN [f \in Range(fields) |-> r[f].val] ELSE <<>>]

ArticleContent(url, title, text) ==
    Build("ArticleContent", <<"url", "title", "text">>,
          [url |-> url, title |-> title, text |-> text],
          [url |-> validate_url(url),
           title |-> MinLength1(title, ArticleContent_validate_non_empty(title)),
           text |-> MinLength1(text, ArticleContent_validate_non_empty(text))])

TextChunk(text, source_url) ==
    Build("TextChunk", <<"text", "source_url">>,
          [text |-> text, source_url |-> source_url],
          [text |-> MinLength1(text, validate_text(text)),
           source_url |-> PlainStr(source_url)])

Entity(name, type) ==
    Build("Entity", <<"name", "type">>,
          [name |-> name, type |-> type],
          [name |-> MinLength1(name, Entity_validate_non_empty(name)),
           type |-> MinLength1(type, Entity_validate_non_empty(type))])

Relationship(source, target, relationship_type) ==
    Build("Relationship", <<"source", "target", "relationship_type">>,
          [source |-> source, target |-> target, relationship_type |-> relationship_type],
          [source |-> MinLength1(source, Relationship_validate_non_empty(source)),
           target |-> MinLength1(target, Relationship_validate_non_empty(target)),
           relationship_type |->
               MinLength1(relationship_type,
                          Relationship_validate_non_empty(relationship_type))])

GraphExtraction(chunk_id) ==
    Build("GraphExtraction", <<"chunk_id">>,
          [chunk_id |-> chunk_id],
          [chunk_id |-> PlainStr(chunk_id)])

GraphSchema(entity_types, relationship_types, extraction_prompt) ==
    Build("GraphSchema", <<"entity_types", "relationship_types", "extraction_prompt">>,
          [entity_types |-> entity_types, relationship_types |-> relationship_types,
           extraction_prompt |-> extraction_prompt],
          [entity_types |-> validate_unique_types(entity_types),
           relationship_types |-> validate_unique_types(relationship_types),
           extraction_prompt |->
               MinLength1(extraction_prompt, validate_prompt(extraction_prompt))])

ScrapingFailure(url, domain, failure_type) ==
    Build("ScrapingFailure", <<"url", "domain", "failure_type">>,
          [url |-> url, domain |-> domain, failure_type |-> failure_type],
          [url |-> PlainStr(url),
           domain |-> PlainStr(domain),
           failure_type |-> PlainStr(failure_type)])

(***************************************************************************)
(* Value-type construction as a state machine: call is the constructor     *)
(* call to make (class and raw arguments), obj its outcome.                *)
(***************************************************************************)
NoObj == [cls |-> "none", args |-> <<>>, ok |-> FALSE, errors |-> <<>>, value |-> <<>>]

NoCall == [cls |-> "none", args |-> <<>>]

TagLists(n) == UNION {[1..k -> RawTags] : k \in 0..n}

ValueCalls ==
    [cls : {"ArticleContent"}, args : [url : Str, title : Str, text : Str]]
    \cup [cls : {"TextChunk"}, args : [text : Str, source_url : Str]]
    \cup [cls : {"Entity"}, args : [name : Str, type : Str]]
    \cup [cls : {"Relationship"},
          args : [source : Str, target : Str, relationship_type : Str]]
    \cup [cls : {"GraphExtraction"}, args : [chunk_id : Str]]
    \cup UNION {[cls : {"GraphSchema"},
                 args : [entity_types : TagLists(n),
                         relationship_types : TagLists(MaxTypes - n),
                         extraction_prompt : Str]] : n \in 0..MaxTypes}
    \cup [cls : {"ScrapingFailure"}, args : [url : Str, domain : Str, failure_type : Str]]

NewArticleContent ==
    /\ call.cls = "ArticleContent" /\ obj = NoObj
    /\ obj' = ArticleContent(call.args.url, call.args.title, call.args.text)
    /\ UNCHANGED <<call, built, graph, serialized, pc, req, res>>

NewTextChunk ==
    /\ call.cls = "TextChunk" /\ obj = NoObj
    /\ obj' = TextChunk(call.args.text, call.args.source_url)
    /\ UNCHANGED <<call, built, graph, serialized, pc, req, res>>

NewEntity ==
    /\ call.cls = "Entity" /\ obj = NoObj
    /\ obj' = Entity(call.args.name, call.args.type)
    /\ UNCHANGED <<call, built, graph, serialized, pc, req, res>>

NewRelationship ==
    /\ call.cls = "Relationship" /\ obj = NoObj
    /\ obj' = Relationship(call.args.source, call.args.target, call.args.relationship_type)
    /\ UNCHANGED <<call, built, graph, serialized, pc, req, res>>

NewGraphExtraction ==
    /\ call.cls = "GraphExtraction" /\ obj = NoObj
    /\ obj' = GraphExtraction(call.args.chunk_id)
    /\ UNCHANGED <<call, built, graph, serialized, pc, req, res>>

NewGraphSchema ==
    /\ call.cls = "GraphSchema" /\ obj = NoObj
    /\ obj' = GraphSchema(call.args.entity_types, call.args.relationship_types,
                          call.args.extraction_prompt)
    /\ UNCHANGED <<call, built, graph, serialized, pc, req, res>>

NewScrapingFailure ==
    /\ call.cls = "ScrapingFailure" /\ obj = NoObj
    /\ obj' = ScrapingFailure(call.args.url, call.args.domain, call.args.failure_type)
    /\ UNCHANGED <<call, built, graph, serialized, pc, req, res>>

(***************************************************************************)
(* GraphData.  An Entity is its id and name, a Relationship its source and *)
(* target: both arrive already constructed, and the GraphData validators   *)
(* read nothing else of them.                                              *)
(***************************************************************************)
MaxEntities == 2     \* longest entity list given to one GraphData construction
MaxRels == 2         \* longest relationship list given to one GraphData construction

Ids == {"e1", "e2", "e99"}
Names == {"A", "B"}
EntityValues == [id : Ids, name : Names]
RelValues == [source : Ids, target : Ids]
Metadata == {"meta"}

Lists(S, n) == UNION {[1..k -> S] : k \in 0..n}

\* Mutant: whole entities are compared, not their ids.
validate_unique_entities_by_value(v) ==
    IF Len(v) # Cardinality(Range(v))
    THEN Raise(<<"Duplicate entity IDs found">>)
    ELSE Ok(v)

\* Mutant: the list of ids is compared with itself, so nothing is ever rejected.
validate_unique_entities_never(v) == Ok(v)

validate_unique_entities(v) ==
    LET ids == [i \in 1..Len(v) |-> v[i].id]
    IN IF Len(ids) # Cardinality(Range(ids))
       THEN Raise(<<"Duplicate entity IDs found">>)
       ELSE Ok(v)

\* Mutant: the loop tests only the source of each relationship.
RECURSIVE CheckRels_source_only(_, _, _)
CheckRels_source_only(rels, i, entity_ids) ==
    IF i > Len(rels) THEN Ok(rels)
    ELSE IF rels[i].source \notin entity_ids
         THEN Raise(<<"Invalid source entity", rels[i].source>>)
         ELSE CheckRels_source_only(rels, i + 1, entity_ids)

\* Mutant: the loop tests the target before the source.
RECURSIVE CheckRels_target_first(_, _, _)
CheckRels_target_first(rels, i, entity_ids) ==
    IF i > Len(rels) THEN Ok(rels)
    ELSE IF rels[i].target \notin entity_ids
         THEN Raise(<<"Invalid target entity", rels[i].target>>)
         ELSE IF rels[i].source \notin entity_ids
              THEN Raise(<<"Invalid source entity", rels[i].source>>)
              ELSE CheckRels_target_first(rels, i + 1, entity_ids)

\* The for loop of validate_relationship_references over rels[i..].
RECURSIVE CheckRels(_, _, _)
CheckRels(rels, i, entity_ids) ==
    IF i > Len(rels) THEN Ok(rels)
    ELSE IF rels[i].source \notin entity_ids
         THEN Raise(<<"Invalid source entity", rels[i].source>>)
         ELSE IF rels[i].target \notin entity_ids
              THEN Raise(<<"Invalid target entity", rels[i].target>>)
              ELSE CheckRels(rels, i + 1, entity_ids)

\* Mutant: the key looked up in info.data is never there, so the loop never runs.
validate_relationship_references_skipped(v, data) == Ok(v)

\* data is info.data: the fields validated so far, without those that failed.
validate_relationship_references(v, data) ==
    IF "entities" \in DOMAIN data
    THEN CheckRels(v, 1, {data.entities[i].id : i \in 1..Len(data.entities)})
    ELSE Ok(v)

\* kw holds the keyword arguments given; a missing one takes its default_factory
\* value, which is not validated but is part of info.data.
GraphData(kw) ==
    LET ents == IF "entities" \in DOMAIN kw
                THEN validate_unique_entities(kw.entities) ELSE Ok(<<>>)
        data == IF ents.ok THEN [entities |-> ents.val] ELSE <<>>
        rels == IF "relationships" \in DOMAIN kw
                THEN validate_relationship_references(kw.relationships, data) ELSE Ok(<<>>)
        meta == IF "metadata" \in DOMAIN kw THEN Ok(kw.metadata) ELSE Ok("empty")
    IN Build("GraphData", <<"entities", "relationships", "metadata">>, kw,
             [entities |-> ents, relationships |-> rels, metadata |-> meta])

\* The entity list is given or omitted; relationships and metadata are given.
GraphCalls ==
    [cls : {"GraphData"},
     args : [entities : Lists(EntityValues, MaxEntities),
             relationships : Lists(RelValues, MaxRels), metadata : Metadata]
            \cup [relationships : Lists(RelValues, MaxRels), metadata : Metadata]]

NewGraphData ==
    /\ call.cls = "GraphData" /\ built = NoObj
    /\ built' = GraphData(call.args)
    /\ UNCHANGED <<call, obj, graph, serialized, pc, req, res>>

(***************************************************************************)
(* merge_extraction(graph, extraction): append the extraction's entities   *)
(* and relationships, validated as a GraphData over the appended lists.    *)
(* A writer reads the graph and validates in one step (Check), appends in  *)
(* a second (AppendBatch) and hands the outcome to its caller in a third   *)
(* (Return).  Under the single-writer discipline a merge starts only when  *)
(* no other merge is in progress.                                          *)
(***************************************************************************)
MaxBatchEntities == 2   \* most entities in one GraphExtraction
MaxBatchRels == 1       \* most relationships in one GraphExtraction
MaxNodes == 3           \* a merge is started only if the graph and the batches in
MaxEdges == 2           \* progress stay within MaxNodes entities and MaxEdges relationships

Writers == {"w1", "w2"}
MergeIds == {"e1", "e2"}
MergeEntities == [id : MergeIds, name : {"A"}]
\* Extracted relationships join two different identifiers.
MergeRels == {r \in [source : MergeIds, target : MergeIds] : r.source # r.target}
Extractions == [entities : Lists(MergeEntities, MaxBatchEntities),
                relationships : Lists(MergeRels, MaxBatchRels)]

EmptyGraph == [entities |-> <<>>, relationships |-> <<>>, metadata |-> "empty"]
NoExtraction == [entities |-> <<>>, relationships |-> <<>>]

merge_extraction(g, x) ==
    GraphData([entities |-> g.entities \o x.entities,
               relationships |-> g.relationships \o x.relationships,
               metadata |-> g.metadata])

RECURSIVE Sum(_, _)
Sum(f, S) == IF S = {} THEN 0 ELSE LET o == CHOOSE o \in S : TRUE IN f[o] + Sum(f, S \ {o})

\* The sizes of the batches validated and not yet appended.
PendingEntities ==
    Sum([o \in Writers |-> IF pc[o] = "append" THEN Len(req[o].entities) ELSE 0], Writers)

PendingRels ==
    Sum([o \in Writers |-> IF pc[o] = "append" THEN Len(req[o].relationships) ELSE 0], Writers)

Check(w) ==
    \E x \in Extractions :
        /\ pc[w] = "idle"
        /\ serialized => \A o \in Writers : pc[o] = "idle"
        /\ Len(graph.entities) + Len(x.entities) + PendingEntities <= MaxNodes
        /\ Len(graph.relationships) + Len(x.relationships) + PendingRels <= MaxEdges
        /\ req' = [req EXCEPT ![w] = x]
        /\ LET r == merge_extraction(graph, x)
           IN /\ pc' = [pc EXCEPT ![w] = IF r.ok THEN "append" ELSE "failed"]
              /\ res' = [res EXCEPT ![w] = r.errors]
        /\ UNCHANGED <<call, obj, built, graph, serialized>>

AppendBatch(w) ==
    /\ pc[w] = "append"
    /\ graph' = [graph EXCEPT !.entities = @ \o req[w].entities,
                              !.relationships = @ \o req[w].relationships]
    /\ pc' = [pc EXCEPT ![w] = "merged"]
    /\ UNCHANGED <<call, obj, built, serialized, req, res>>

Return(w) ==
    /\ pc[w] \in {"merged", "failed"}
    /\ pc' = [pc EXCEPT ![w] = "idle"]
    /\ req' = [req EXCEPT ![w] = NoExtraction]
    /\ res' = [res EXCEPT ![w] = <<>>]
    /\ UNCHANGED <<call, obj, built, graph, serialized>>

(***************************************************************************)
(* GraphData declares plain list fields and sets no model_config: a holder *)
(* of the object can append to its lists, and no validator runs.           *)
(***************************************************************************)
AppendEntity ==
    \E e \in MergeEntities :
        /\ Len(graph.entities) < MaxNodes
        /\ graph' = [graph EXCEPT !.entities = Append(@, e)]
        /\ UNCHANGED <<call, obj, built, serialized, pc, req, res>>

AppendRelationship ==
    \E r \in MergeRels :
        /\ Len(graph.relationships) < MaxEdges
        /\ graph' = [graph EXCEPT !.relationships = Append(@, r)]
        /\ UNCHANGED <<call, obj, built, serialized, pc, req, res>>

(***************************************************************************)
(* Specifications.                                                         *)
(***************************************************************************)
\* The values of the GraphData constructions that succeed.
InitGraphs ==
    LET tries == {GraphData([entities |-> es, relationships |-> rs, metadata |-> md]) :
                    es \in Lists(MergeEntities, MaxNodes),
                    rs \in Lists(MergeRels, MaxEdges),
                    md \in Metadata}
    IN {t.value : t \in {u \in tries : u.ok}}

Idle ==
    /\ graph = EmptyGraph
    /\ serialized = TRUE
    /\ pc = [w \in Writers |-> "idle"]
    /\ req = [w \in Writers |-> NoExtraction]
    /\ res = [w \in Writers |-> <<>>]

InitValues == call \in ValueCalls /\ obj = NoObj /\ built = NoObj /\ Idle

InitConstruct == call \in GraphCalls /\ obj = NoObj /\ built = NoObj /\ Idle

InitRace ==
    /\ call = NoCall /\ obj = NoObj /\ built = NoObj
    /\ graph \in InitGraphs
    /\ serialized \in BOOLEAN
    /\ pc = [w \in Writers |-> "idle"]
    /\ req = [w \in Writers |-> NoExtraction]
    /\ res = [w \in Writers |-> <<>>]

InitMerge == InitRace /\ serialized = TRUE

Init == InitValues \/ InitConstruct \/ InitMerge

NextValues ==
    \/ NewArticleContent
    \/ NewTextChunk
    \/ NewEntity
    \/ NewRelationship
    \/ NewGraphExtraction
    \/ NewGraphSchema
    \/ NewScrapingFailure

NextConstruct == NewGraphData

NextMerge ==
    \/ \E w \in Writers : Check(w)
    \/ \E w \in Writers : AppendBatch(w)
    \/ \E w \in Writers : Return(w)

NextMutate ==
    \/ NextMerge
    \/ AppendEntity
    \/ AppendRelationship

Next == NextValues \/ NextConstruct \/ NextMutate

Spec == Init /\ [][Next]_vars

SpecValues == InitValues /\ [][NextValues]_vars

SpecConstruct == InitConstruct /\ [][NextConstruct]_vars

SpecMerge == InitMerge /\ [][NextMerge]_vars

SpecRace == InitRace /\ [][NextMerge]_vars

SpecMutate == InitMerge /\ [][NextMutate]_vars

(***************************************************************************)
(* Properties of GraphData construction (SpecConstruct).                   *)
(***************************************************************************)
GivenEntities == IF "entities" \in DOMAIN call.args THEN call.args.entities ELSE <<>>

GivenRels == call.args.relationships

HasDuplicateId(es) == \E i, j \in 1..Len(es) : i # j /\ es[i].id = es[j].id

IdsOf(es) == {es[i].id : i \in 1..Len(es)}

DanglingAt(rs, i, ids) == rs[i].source \notin ids \/ rs[i].target \notin ids

HasDangling(es, rs) == \E i \in 1..Len(rs) : DanglingAt(rs, i, IdsOf(es))

Constructed == built.cls = "GraphData"

DuplicateError == <<"entities", <<"Duplicate entity IDs found">> >>

IsDanglingError(e, es, rs) ==
    /\ e[1] = "relationships"
    /\ e[2][1] \in {"Invalid source entity", "Invalid target entity"}
    /\ e[2][2] \notin IdsOf(es)
    /\ \E i \in 1..Len(rs) : e[2][2] \in {rs[i].source, rs[i].target}

\* C1: a GraphData whose entity list has two entities with the same id is rejected
\* with the duplicate-identifier error, whatever the names, relationships and
\* metadata are; a constructed GraphData has pairwise distinct entity ids.
C1_UniqueEntityIds ==
    Constructed =>
        /\ HasDuplicateId(GivenEntities) =>
               /\ ~built.ok
               /\ \E k \in 1..Len(built.errors) : built.errors[k] = DuplicateError
        /\ built.ok => ~HasDuplicateId(built.value.entities)

C1_Witness ==
    /\ Constructed
    /\ ~built.ok
    /\ \E i, j \in 1..Len(GivenEntities) :
          /\ i # j
          /\ GivenEntities[i].id = GivenEntities[j].id
          /\ GivenEntities[i].name # GivenEntities[j].name

\* C2 as stated: a GraphData with a relationship whose source or target is not the
\* id of an entity of the list (the omitted list being empty) is rejected with a
\* dangling-reference error naming the offending identifier.
C2_DanglingAlwaysReported ==
    Constructed /\ HasDangling(GivenEntities, GivenRels) =>
        /\ ~built.ok
        /\ \E k \in 1..Len(built.errors) :
              IsDanglingError(built.errors[k], GivenEntities, GivenRels)

\* C2 as amended: such a GraphData is always rejected, and a constructed GraphData
\* has every relationship endpoint among its entity ids; the error is a
\* dangling-reference error naming an absent endpoint when the entity ids are
\* pairwise distinct, and otherwise it is the duplicate-identifier error alone.
C2_DanglingRejected ==
    Constructed =>
        /\ HasDangling(GivenEntities, GivenRels) =>
               /\ ~built.ok
               /\ ~HasDuplicateId(GivenEntities) =>
                      \E k \in 1..Len(built.errors) :
                          IsDanglingError(built.errors[k], GivenEntities, GivenRels)
               /\ HasDuplicateId(GivenEntities) => built.errors = <<DuplicateError>>
        /\ built.ok => ~HasDangling(built.value.entities, built.value.relationships)

C2_Witness ==
    /\ Constructed
    /\ "entities" \notin DOMAIN call.args
    /\ GivenRels # <<>>
    /\ ~built.ok
    /\ IsDanglingError(built.errors[1], <<>>, GivenRels)

\* The first relationship with an endpoint outside ids.
FirstDangling(rs, ids) ==
    CHOOSE i \in 1..Len(rs) :
        DanglingAt(rs, i, ids) /\ \A j \in 1..(i - 1) : ~DanglingAt(rs, j, ids)

\* C8: the error of a rejected GraphData is fixed by precedence: a duplicate entity
\* id is the only error reported even when a relationship dangles; otherwise the
\* error is that of the first dangling relationship in list order, naming its
\* source if the source is absent and its target only if the source is present.
C8_ErrorPrecedence ==
    Constructed =>
        /\ HasDuplicateId(GivenEntities) => built.errors = <<DuplicateError>>
        /\ ~HasDuplicateId(GivenEntities) /\ HasDangling(GivenEntities, GivenRels) =>
               LET ids == IdsOf(GivenEntities)
                   r == GivenRels[FirstDangling(GivenRels, ids)]
               IN built.errors =
                      << <<"relationships",
                           IF r.source \notin ids
                           THEN <<"Invalid source entity", r.source>>
                           ELSE <<"Invalid target entity", r.target>> >> >>

C8_Witness ==
    /\ Constructed
    /\ ~HasDuplicateId(GivenEntities)
    /\ Len(GivenRels) = 2
    /\ ~DanglingAt(GivenRels, 1, IdsOf(GivenEntities))
    /\ GivenRels[2].source \notin IdsOf(GivenEntities)
    /\ GivenRels[2].target \notin IdsOf(GivenEntities)
    /\ GivenRels[2].source # GivenRels[2].target
    /\ built.errors = << <<"relationships", <<"Invalid source entity", GivenRels[2].source>> >> >>

(***************************************************************************)
(* Properties of value-type construction (SpecValues).                     *)
(***************************************************************************)
Blank(v) == Strip(v) = <<>>

RequiredStrings(cls) ==
    CASE cls = "ArticleContent" -> {"url", "title", "text"}
      [] cls = "TextChunk" -> {"text", "source_url"}
      [] cls = "Entity" -> {"name", "type"}
      [] cls = "Relationship" -> {"source", "target", "relationship_type"}
      [] cls = "GraphExtraction" -> {"chunk_id"}
      [] cls = "GraphSchema" -> {"extraction_prompt"}
      [] cls = "ScrapingFailure" -> {"url", "domain", "failure_type"}
      [] OTHER -> {}

\* C3: a Relationship whose source and target are the same non-empty identifier
\* after trimming is rejected, so no constructed Relationship joins an entity to
\* itself.
C3_NoSelfReference ==
    obj.cls = "Relationship" /\ ~Blank(obj.args.source)
        /\ Strip(obj.args.source) = Strip(obj.args.target) => ~obj.ok

\* C7: for every required string field of every value type, a blank (empty or
\* all-whitespace) value makes construction fail, and when no required string is
\* blank construction succeeds and stores each of them trimmed.  (A Relationship
\* from an identifier to itself is left to C3.)
C7_RequiredStringsTrimmed ==
    obj.cls # "none" =>
        LET req_fields == RequiredStrings(obj.cls)
            type_lists_ok == obj.cls = "GraphSchema" => obj.errors = <<>>
                                 \/ \A k \in 1..Len(obj.errors) :
                                        obj.errors[k][1] = "extraction_prompt"
            self_ref == obj.cls = "Relationship"
                            /\ Strip(obj.args.source) = Strip(obj.args.target)
        IN /\ (\E f \in req_fields : Blank(obj.args[f])) => ~obj.ok
           /\ (\A f \in req_fields : ~Blank(obj.args[f])) /\ type_lists_ok /\ ~self_ref =>
                  /\ obj.ok
                  /\ \A f \in req_fields : obj.value[f] = Strip(obj.args[f])

\* The k-th kept item of a raw type list: kept items are the non-blank ones.
KeptBefore(raw, i) == Cardinality({j \in 1..i : ~Blank(raw[j])})

NormalizedDuplicate(raw) ==
    \E i, j \in 1..Len(raw) :
        /\ i # j /\ ~Blank(raw[i]) /\ ~Blank(raw[j])
        /\ Upper(Strip(raw[i])) = Upper(Strip(raw[j]))

\* stored is raw with the blank items dropped and the others trimmed and upper-cased,
\* in the same order.
IsNormalizationOf(stored, raw) ==
    /\ Len(stored) = KeptBefore(raw, Len(raw))
    /\ \A i \in 1..Len(raw) :
           ~Blank(raw[i]) => stored[KeptBefore(raw, i)] = Upper(Strip(raw[i]))

TypeListFields == {"entity_types", "relationship_types"}

\* C6: for each of the two type lists of a GraphSchema: if two items are equal after
\* trimming and upper-casing, construction fails with the duplicate-type error on
\* that list; in a constructed GraphSchema the stored list is the given one with
\* blank items dropped and the others trimmed and upper-cased in order, its tags
\* are pairwise distinct, and each is non-empty, trimmed and upper-case.  Without
\* such a duplicate and with a non-blank prompt, construction succeeds.
C6_TypeListsNormalized ==
    obj.cls = "GraphSchema" =>
        /\ \A f \in TypeListFields :
              /\ NormalizedDuplicate(obj.args[f]) =>
                     /\ ~obj.ok
                     /\ \E k \in 1..Len(obj.errors) :
                            obj.errors[k] = <<f, "Duplicate types found">>
              /\ obj.ok =>
                     LET stored == obj.value[f]
                     IN /\ IsNormalizationOf(stored, obj.args[f])
                        /\ \A i, j \in 1..Len(stored) : i # j => stored[i] # stored[j]
                        /\ \A i \in 1..Len(stored) :
                               /\ stored[i] # <<>>
                               /\ Strip(stored[i]) = stored[i]
                               /\ Upper(stored[i]) = stored[i]
        /\ (\A f \in TypeListFields : ~NormalizedDuplicate(obj.args[f]))
               /\ ~Blank(obj.args.extraction_prompt) => obj.ok

C6_Witness ==
    /\ obj.cls = "GraphSchema"
    /\ obj.args.entity_types = << <<"a">>, <<"A">> >>
    /\ ~Blank(obj.args.extraction_prompt)
    /\ obj.errors = << <<"entity_types", "Duplicate types found">> >>

(***************************************************************************)
(* Properties of the graph under merges and mutation.                      *)
(***************************************************************************)
GraphInvariant(g) ==
    /\ ~HasDuplicateId(g.entities)
    /\ ~HasDangling(g.entities, g.relationships)

\* x can be merged into g: no incoming id is in g or repeated in x, and every
\* incoming relationship ends in g's entities or in x's.
Mergeable(g, x) ==
    /\ \A i \in 1..Len(x.entities) : x.entities[i].id \notin IdsOf(g.entities)
    /\ ~HasDuplicateId(x.entities)
    /\ \A i \in 1..Len(x.relationships) :
           ~DanglingAt(x.relationships, i, IdsOf(g.entities) \cup IdsOf(x.entities))

\* C4: both GraphData invariants hold in every state reachable from a constructed
\* GraphData by operations that add entities or relationships.
C4_InvariantsUnderMutation == GraphInvariant(graph)

\* Writer w's step is the check of a merge, or its append.
Checked(w) == pc[w] = "idle" /\ pc'[w] # "idle"

Appended(w) == pc[w] = "append" /\ pc'[w] = "merged"

\* C5: a merge succeeds exactly when the extraction is mergeable into the graph
\* (relationships judged against the graph's entities and the extraction's own),
\* and the merged graph is the graph's entities followed by the extraction's, and
\* its relationships followed by the extraction's, with the metadata kept.
C5_MergeExactlyWhenMergeable ==
    [][\A w \in Writers :
          /\ Checked(w) =>
                 /\ pc'[w] = (IF Mergeable(graph, req'[w]) THEN "append" ELSE "failed")
                 /\ (pc'[w] = "failed") = (res'[w] # <<>>)
          /\ Appended(w) =>
                 /\ graph'.entities = graph.entities \o req[w].entities
                 /\ graph'.relationships = graph.relationships \o req[w].relationships
                 /\ graph'.metadata = graph.metadata]_vars

C5_Witness ==
    \E w \in Writers :
        /\ pc[w] = "merged"
        /\ Len(req[w].entities) = 1
        /\ Len(req[w].relationships) = 1
        /\ req[w].relationships[1].target = req[w].entities[1].id
        /\ req[w].relationships[1].source # req[w].entities[1].id
        /\ Len(graph.entities) = 2
        /\ graph.relationships = req[w].relationships

\* C9: when merges are serialized no reachable graph has a duplicate entity id or
\* a dangling relationship endpoint (the witness: when they are not, one has).
C9_SerializedMergesKeepInvariants == serialized => GraphInvariant(graph)

C9_Witness == ~serialized /\ HasDuplicateId(graph.entities)

====
